---- MODULE Spec2Model ----
(***************************************************************************)
(* Model of numpy_quant/tensor.py (tinyquant): the three tensor variants   *)
(* ITensor, FTensor and QTensor, their operations, and the helpers concat  *)
(* and where.                                                              *)
(*                                                                         *)
(* A numpy array is a record [dtype, shape, vals]: vals is the row-major   *)
(* flattening, shape the tuple of extents (<<>> for a 0-d array).  A       *)
(* tensor is a record whose cls field is the Python class.  One call of    *)
(* the library is one action: it reads the operands in args, stores the    *)
(* returned tensor in res and the raised exception (or "ok") in status,    *)
(* and writes back to args whatever the call did to its operands.          *)
(***************************************************************************)
EXTENDS Integers, Sequences, FiniteSets, TLC

VARIABLES
    args,     \* the operands of the call, in positional order
    res,      \* the value the last call returned (NoTensor when it raised)
    status,   \* "init", "ok", "fed", or the name of the exception the call raised
    call,     \* name of the last operation called
    steps,    \* number of calls made so far
    same      \* the value returned is one of the operand objects

vars == <<args, res, status, call, steps, same>>

----------------------------------------------------------------------------
(* Bounds of the model *)

\* largest number of elements of an input array
MaxSize == 4
\* largest number of calls in one behaviour
MaxSteps == 2

----------------------------------------------------------------------------
(* Python values *)

None == [dtype |-> "NoneType", shape |-> <<>>, vals |-> <<>>]
NoTensor == [cls |-> "NoneType"]

Array(dtype, shape, vals) == [dtype |-> dtype, shape |-> shape, vals |-> vals]

RECURSIVE Prod(_)
Prod(s) == IF s = <<>> THEN 1 ELSE s[1] * Prod(Tail(s))

\* all arrays of a dtype and shape with elements from vs
Arrays(dtype, shape, vs) ==
    {Array(dtype, shape, v) : v \in [1..Prod(shape) -> vs]}

RECURSIVE SumSeq(_)
SumSeq(s) == IF s = <<>> THEN 0 ELSE s[1] + SumSeq(Tail(s))

Max2(x, y) == IF x >= y THEN x ELSE y
Min2(x, y) == IF x <= y THEN x ELSE y

\* outcome of a call: the exception raised, or "ok" and the value returned
\* same: the value returned is one of the operands, not a new object
Raise(exc) == [status |-> exc, res |-> NoTensor, same |-> FALSE]
Return(v) == [status |-> "ok", res |-> v, same |-> FALSE]

\* the elements, in order, of a sequence of sequences
RECURSIVE Flatten(_)
Flatten(ss) == IF ss = <<>> THEN <<>> ELSE ss[1] \o Flatten(Tail(ss))

----------------------------------------------------------------------------
(* numpy broadcasting *)

\* shape s left-padded with 1s to rank n
Pad(s, n) == [i \in 1..n |-> IF i <= n - Len(s) THEN 1 ELSE s[i - (n - Len(s))]]

Broadcastable(s, t) ==
    LET n == Max2(Len(s), Len(t))
        ps == Pad(s, n)
        pt == Pad(t, n)
    IN \A i \in 1..n : ps[i] = pt[i] \/ ps[i] = 1 \/ pt[i] = 1

BroadcastShape(s, t) ==
    LET n == Max2(Len(s), Len(t))
        ps == Pad(s, n)
        pt == Pad(t, n)
    IN [i \in 1..n |-> IF ps[i] = 1 THEN pt[i] ELSE ps[i]]

\* multi-index (0-based) of the flat position k0 (0-based) in an array of shape s
Unravel(k0, s) ==
    [i \in 1..Len(s) |-> (k0 \div Prod(SubSeq(s, i + 1, Len(s)))) % s[i]]

Ravel(idx, s) ==
    SumSeq([i \in 1..Len(s) |-> idx[i] * Prod(SubSeq(s, i + 1, Len(s)))])

\* element of arr, broadcast to shape s, at flat position k (1-based)
BroadcastAt(arr, s, k) ==
    LET n == Len(s)
        ps == Pad(arr.shape, n)
        idx == Unravel(k - 1, s)
        src == [i \in 1..n |-> IF ps[i] = 1 THEN 0 ELSE idx[i]]
    IN arr.vals[Ravel(src, ps) + 1]

----------------------------------------------------------------------------
(* numpy array objects.  mem is the sequence of the arrays a call has      *)
(* allocated or was given; a reference is an index into it.                *)

\* a mutant of ndarray_copy: the "copy" is the same object
ndarray_copy_alias(mem, ref) == [mem |-> mem, ref |-> ref]

\* arr.copy(): a new array object with the same contents
ndarray_copy(mem, ref) == [mem |-> Append(mem, mem[ref]), ref |-> Len(mem) + 1]

\* number of True entries among the first k of a mask
RECURSIVE CountTrue(_, _)
CountTrue(mask, k) ==
    IF k = 0 THEN 0 ELSE CountTrue(mask, k - 1) + (IF mask[k] THEN 1 ELSE 0)

\* arr[mask] = v, mask a boolean array of shape mshape (numpy's
\* array_assign_boolean_subscript): v must be 0-d or 1-d; a 1-d v of length
\* other than 1 must have exactly one value per True of the mask, and the
\* values are laid down in the order of the True entries.
ndarray_setitem_mask(mem, ref, mshape, mask, v) ==
    LET arr == mem[ref]
        n == CountTrue(mask, Len(mask))
    IN IF mshape # arr.shape THEN [status |-> "IndexError", mem |-> mem]
       ELSE IF Len(v.shape) > 1 THEN [status |-> "TypeError", mem |-> mem]
       ELSE IF Len(v.shape) = 1 /\ v.shape[1] # 1
       THEN IF n # v.shape[1] THEN [status |-> "ValueError", mem |-> mem]
            ELSE [status |-> "ok",
                  mem |-> [mem EXCEPT ![ref].vals =
                      [k \in 1..Len(arr.vals) |->
                          IF mask[k] THEN v.vals[CountTrue(mask, k)] ELSE arr.vals[k]]]]
       ELSE [status |-> "ok",
             mem |-> [mem EXCEPT ![ref].vals =
                 [k \in 1..Len(arr.vals) |-> IF mask[k] THEN v.vals[1] ELSE arr.vals[k]]]]

\* numpy's result dtype of an elementwise arithmetic operation.  "pyfloat"
\* is a Python float operand, which never widens a floating-point array.
ResultType(d1, d2) ==
    IF d1 = d2 THEN d1
    ELSE IF d1 = "pyfloat" THEN (IF d2 \in {"float32", "float64"} THEN d2 ELSE "float64")
    ELSE IF d2 = "pyfloat" THEN (IF d1 \in {"float32", "float64"} THEN d1 ELSE "float64")
    ELSE IF d1 = "bool" THEN d2
    ELSE IF d2 = "bool" THEN d1
    ELSE IF {d1, d2} = {"int32", "int64"} THEN "int64"
    ELSE "float64"

\* one element of an elementwise arithmetic operation
Arith(op, p, q) ==
    CASE op = "add" -> p + q
      [] op = "sub" -> p - q
      [] op = "mul" -> p * q

\* x (op) y elementwise with broadcasting
ndarray_binop(op, x, y) ==
    IF ~Broadcastable(x.shape, y.shape)
    THEN [status |-> "ValueError", arr |-> None]
    ELSE LET s == BroadcastShape(x.shape, y.shape)
         IN [status |-> "ok",
             arr |-> Array(ResultType(x.dtype, y.dtype), s,
                           [k \in 1..Prod(s) |->
                               Arith(op, BroadcastAt(x, s, k), BroadcastAt(y, s, k))])]

ndarray_add(x, y) == ndarray_binop("add", x, y)
ndarray_mul(x, y) == ndarray_binop("mul", x, y)

\* arr[mask]: the elements where the mask is True, as a 1-d array
RECURSIVE Selected(_, _, _)
Selected(vals, mask, k) ==
    IF k = 0 THEN <<>>
    ELSE IF mask[k] THEN Append(Selected(vals, mask, k - 1), vals[k])
    ELSE Selected(vals, mask, k - 1)

ndarray_getitem_mask(arr, mshape, mask) ==
    IF mshape # arr.shape THEN [status |-> "IndexError", arr |-> None]
    ELSE LET v == Selected(arr.vals, mask, Len(mask))
         IN [status |-> "ok", arr |-> Array(arr.dtype, <<Len(v)>>, v)]

\* np.broadcast_to(arr, shape): every axis of arr, aligned at the last one,
\* must have the requested extent or extent 1
ndarray_broadcast_to(arr, shape) ==
    IF \/ Len(shape) < Len(arr.shape)
       \/ \E i \in 1..Len(shape) : shape[i] < 0
       \/ LET ps == Pad(arr.shape, Len(shape))
          IN \E i \in 1..Len(shape) : ps[i] # shape[i] /\ ps[i] # 1
    THEN [status |-> "ValueError", arr |-> None]
    ELSE [status |-> "ok",
          arr |-> Array(arr.dtype, shape,
                        [k \in 1..Prod(shape) |-> BroadcastAt(arr, shape, k)])]

\* np.matmul(x, y) for operands of rank 1 or 2: a 1-d x is a row, a 1-d y a
\* column, and the axis added is removed from the result
ndarray_matmul(x, y) ==
    LET xs == IF Len(x.shape) = 1 THEN <<1, x.shape[1]>> ELSE x.shape
        ys == IF Len(y.shape) = 1 THEN <<y.shape[1], 1>> ELSE y.shape
        m == xs[1]
        n == ys[2]
        inner == xs[2]
        out == (IF Len(x.shape) = 1 THEN <<>> ELSE <<m>>) \o
               (IF Len(y.shape) = 1 THEN <<>> ELSE <<n>>)
    IN IF Len(x.shape) \notin {1, 2} \/ Len(y.shape) \notin {1, 2} \/ xs[2] # ys[1]
       THEN [status |-> "ValueError", arr |-> None]
       ELSE [status |-> "ok",
             arr |-> Array(ResultType(x.dtype, y.dtype), out,
                 [k \in 1..(m * n) |->
                     LET i == (k - 1) \div n
                         j == (k - 1) % n
                     IN SumSeq([l \in 1..inner |->
                            x.vals[i * inner + l] * y.vals[(l - 1) * n + j + 1]])])]

\* np.concatenate(arrays, axis): arrays of one rank whose shapes agree off
\* the axis, laid one after the other along it
ndarray_concatenate(arrays, axis) ==
    IF arrays = <<>> \/ arrays[1].shape = <<>> THEN [status |-> "ValueError", arr |-> None]
    ELSE LET n == Len(arrays[1].shape)
             ax == IF axis < 0 THEN axis + n ELSE axis
             RECURSIVE dt(_)
             dt(i) == IF i = 1 THEN arrays[1].dtype
                      ELSE ResultType(dt(i - 1), arrays[i].dtype)
         IN IF ax < 0 \/ ax >= n THEN [status |-> "AxisError", arr |-> None]
            ELSE IF \E i \in 1..Len(arrays) :
                       \/ Len(arrays[i].shape) # n
                       \/ \E d \in 1..n : d # ax + 1 /\ arrays[i].shape[d] # arrays[1].shape[d]
            THEN [status |-> "ValueError", arr |-> None]
            ELSE LET ext == [i \in 1..Len(arrays) |-> arrays[i].shape[ax + 1]]
                     Before(i) == SumSeq(SubSeq(ext, 1, i - 1))
                     out == [arrays[1].shape EXCEPT ![ax + 1] = SumSeq(ext)]
                     Which(q) == CHOOSE i \in 1..Len(arrays) :
                                     Before(i) <= q /\ q < Before(i) + ext[i]
                     At(k) == LET idx == Unravel(k - 1, out)
                                  i == Which(idx[ax + 1])
                              IN arrays[i].vals[
                                     Ravel([idx EXCEPT ![ax + 1] = @ - Before(i)],
                                           arrays[i].shape) + 1]
                 IN [status |-> "ok",
                     arr |-> Array(dt(Len(arrays)), out, [k \in 1..Prod(out) |-> At(k)])]

\* np.where(c, x, y): x where c is nonzero, y elsewhere, all three broadcast
ndarray_where(c, x, y) ==
    IF ~Broadcastable(x.shape, y.shape) THEN [status |-> "ValueError", arr |-> None]
    ELSE LET xy == BroadcastShape(x.shape, y.shape)
         IN IF ~Broadcastable(c.shape, xy) THEN [status |-> "ValueError", arr |-> None]
            ELSE LET s == BroadcastShape(c.shape, xy)
                 IN [status |-> "ok",
                     arr |-> Array(ResultType(x.dtype, y.dtype), s,
                         [k \in 1..Prod(s) |->
                             IF BroadcastAt(c, s, k) # 0 THEN BroadcastAt(x, s, k)
                             ELSE BroadcastAt(y, s, k)])]

IntTypes == {"int64", "int32", "bool"}

\* arr.astype(dtype)
ndarray_astype(arr, dtype) == [arr EXCEPT !.dtype = dtype]

\* arr.transpose(*axes), axes a permutation of the axes (0-based); without
\* axes, and for arr.T, the axes are reversed
ndarray_transpose(arr, axes) ==
    LET n == Len(arr.shape)
        perm == IF axes = <<>> THEN [i \in 1..n |-> n - i] ELSE axes
    IN IF Len(perm) # n \/ {perm[i] : i \in 1..Len(perm)} # 0..(n - 1)
       THEN [status |-> "ValueError", arr |-> None]
       ELSE LET out == [i \in 1..n |-> arr.shape[perm[i] + 1]]
                Src(idx) == [j \in 1..n |-> idx[CHOOSE i \in 1..n : perm[i] + 1 = j]]
            IN [status |-> "ok",
                arr |-> Array(arr.dtype, out,
                    [k \in 1..Prod(out) |->
                        arr.vals[Ravel(Src(Unravel(k - 1, out)), arr.shape) + 1]])]

\* arr.reshape(shape), shape an integer array: one extent may be -1
ndarray_reshape(arr, shape) ==
    LET want == shape.vals
        size == Len(arr.vals)
        holes == {i \in 1..Len(want) : want[i] = -1}
        known == Prod([i \in 1..Len(want) |-> IF want[i] = -1 THEN 1 ELSE want[i]])
    IN IF shape.dtype \notin IntTypes \/ Len(shape.shape) > 1
       THEN [status |-> "TypeError", arr |-> None]
       ELSE IF \/ Cardinality(holes) > 1
               \/ \E i \in 1..Len(want) : want[i] < -1
               \/ holes # {} /\ (known = 0 \/ size % known # 0)
               \/ holes = {} /\ known # size
       THEN [status |-> "ValueError", arr |-> None]
       ELSE [status |-> "ok",
             arr |-> Array(arr.dtype,
                           [i \in 1..Len(want) |->
                               IF want[i] = -1 THEN size \div known ELSE want[i]],
                           arr.vals)]

\* arr.take(indices, axis)
ndarray_take(arr, indices, axis) ==
    LET n == Len(arr.shape)
        ax == IF axis < 0 THEN axis + n ELSE axis
    IN IF indices.dtype \notin IntTypes THEN [status |-> "TypeError", arr |-> None]
       ELSE IF ax < 0 \/ ax >= n THEN [status |-> "AxisError", arr |-> None]
       ELSE LET ext == arr.shape[ax + 1]
                ri == Len(indices.shape)
                out == SubSeq(arr.shape, 1, ax) \o indices.shape \o SubSeq(arr.shape, ax + 2, n)
                Norm(i) == IF i < 0 THEN i + ext ELSE i
                Src(o) == SubSeq(o, 1, ax)
                          \o <<Norm(indices.vals[Ravel(SubSeq(o, ax + 1, ax + ri),
                                                       indices.shape) + 1])>>
                          \o SubSeq(o, ax + ri + 1, Len(o))
            IN IF \E k \in 1..Len(indices.vals) :
                      indices.vals[k] < -ext \/ indices.vals[k] >= ext
               THEN [status |-> "IndexError", arr |-> None]
               ELSE [status |-> "ok",
                     arr |-> Array(arr.dtype, out,
                         [k \in 1..Prod(out) |->
                             arr.vals[Ravel(Src(Unravel(k - 1, out)), arr.shape) + 1]])]

\* arr[ind], ind a Python int: the ind-th slice along the first axis
ndarray_getitem(arr, ind) ==
    IF arr.shape = <<>> THEN [status |-> "IndexError", arr |-> None]
    ELSE LET ext == arr.shape[1]
             i == IF ind < 0 THEN ind + ext ELSE ind
             rest == Tail(arr.shape)
         IN IF i < 0 \/ i >= ext THEN [status |-> "IndexError", arr |-> None]
            ELSE [status |-> "ok",
                  arr |-> Array(arr.dtype, rest,
                                SubSeq(arr.vals, i * Prod(rest) + 1, (i + 1) * Prod(rest)))]

\* np.expand_dims(arr, axis), axis a tuple: axes of extent 1 at those places
ndarray_expand_dims(arr, axis) ==
    LET n == Len(arr.shape) + Len(axis)
        norm == [i \in 1..Len(axis) |-> IF axis[i] < 0 THEN axis[i] + n ELSE axis[i]]
        at == {norm[i] : i \in 1..Len(axis)}
        \* the number of old axes among the first j axes of the result
        Old(j) == Cardinality({i \in 0..(j - 1) : i \notin at})
    IN IF \E i \in 1..Len(axis) : norm[i] < 0 \/ norm[i] >= n
       THEN [status |-> "AxisError", arr |-> None]
       ELSE IF Cardinality(at) # Len(axis) THEN [status |-> "ValueError", arr |-> None]
       ELSE [status |-> "ok",
             arr |-> Array(arr.dtype,
                           [j \in 1..n |-> IF (j - 1) \in at THEN 1 ELSE arr.shape[Old(j)]],
                           arr.vals)]

RECURSIVE MaxSeq(_)
MaxSeq(v) == IF Len(v) = 1 THEN v[1] ELSE Max2(v[1], MaxSeq(Tail(v)))

\* arr.max(axis, keepdims) and arr.sum(axis, keepdims)
ndarray_reduce(kind, arr, axis, keepdims) ==
    LET n == Len(arr.shape)
        ax == IF axis < 0 THEN axis + n ELSE axis
    IN IF ax < 0 \/ ax >= n THEN [status |-> "AxisError", arr |-> None]
       ELSE LET ext == arr.shape[ax + 1]
                kept == [arr.shape EXCEPT ![ax + 1] = 1]
                out == IF keepdims THEN kept
                       ELSE SubSeq(arr.shape, 1, ax) \o SubSeq(arr.shape, ax + 2, n)
                Along(k) == [l \in 1..ext |->
                    arr.vals[Ravel([Unravel(k - 1, kept) EXCEPT ![ax + 1] = l - 1],
                                   arr.shape) + 1]]
            IN IF ext = 0 /\ kind = "max" THEN [status |-> "ValueError", arr |-> None]
               ELSE [status |-> "ok",
                     arr |-> Array(arr.dtype, out,
                         [k \in 1..Prod(out) |->
                             IF kind = "max" THEN MaxSeq(Along(k)) ELSE SumSeq(Along(k))])]

\* The floating-point kernels (exp, erf, sqrt, tanh, 1/x, x/y, mean) are the
\* array library's.  The model keeps the shape of their result and, integers
\* being its only numbers, fills it with any one of KernelVals.
KernelVals == {0, 1}

ndarray_kernel(dtype, shape) ==
    {Array(dtype, shape, [k \in 1..Prod(shape) |-> v]) : v \in KernelVals}

\* n/d rounded to the nearest integer, halves to the even one (d > 0)
RoundHalfEven(n, d) ==
    LET q == n \div d
        r == n % d
    IN IF 2 * r < d THEN q
       ELSE IF 2 * r > d THEN q + 1
       ELSE IF q % 2 = 0 THEN q ELSE q + 1

\* v clamped to the signed range of bit_width bits; no value of the model
\* reaches the range of a width above 30
Clamp(v, bit_width) ==
    IF bit_width > 30 THEN v
    ELSE Max2(-(2 ^ (bit_width - 1)), Min2(2 ^ (bit_width - 1) - 1, v))

----------------------------------------------------------------------------
(* The tensor classes *)

ITensor_init(data) == Return([cls |-> "ITensor", data |-> data])

\* a mutant of FTensor_init: the dtype check is missing
FTensor_init_unchecked(data) == Return([cls |-> "FTensor", data |-> data])

FTensor_init(data) ==
    IF data.dtype # "float32" THEN Raise("ValueError")
    ELSE Return([cls |-> "FTensor", data |-> data])

QTensor_init(data, bit_width, scale, zero_point) ==
    IF data.dtype # "int64" THEN Raise("ValueError")
    ELSE IF zero_point # None /\ zero_point.dtype # "int64" THEN Raise("ValueError")
    ELSE Return([cls |-> "QTensor", data |-> [data EXCEPT !.dtype = "int64"],
                 bit_width |-> bit_width, scale |-> scale, zero_point |-> zero_point])

\* QTensor.relu.  The outcome carries self as the call left it.
QTensor_relu(self) ==
    LET cp == ndarray_copy(<<self.data>>, 1)
        relu_data == cp.mem[cp.ref]
        zp == self.zero_point
        Left(m) == [self EXCEPT !.data = m[1]]
    IN IF zp = None
       THEN [status |-> "TypeError", res |-> NoTensor, same |-> FALSE, self |-> Left(cp.mem)]
       ELSE IF ~Broadcastable(relu_data.shape, zp.shape)
       THEN [status |-> "ValueError", res |-> NoTensor, same |-> FALSE, self |-> Left(cp.mem)]
       ELSE LET mshape == BroadcastShape(relu_data.shape, zp.shape)
                mask == [k \in 1..Prod(mshape) |->
                            BroadcastAt(relu_data, mshape, k) < BroadcastAt(zp, mshape, k)]
                st == ndarray_setitem_mask(cp.mem, cp.ref, mshape, mask, zp)
                new == QTensor_init(st.mem[cp.ref], self.bit_width, self.scale, zp)
            IN IF st.status # "ok"
               THEN [status |-> st.status, res |-> NoTensor, same |-> FALSE, self |-> Left(st.mem)]
               ELSE [status |-> new.status, res |-> new.res, same |-> FALSE, self |-> Left(st.mem)]

\* the shape property of ITensor and FTensor: a new int64 array in an ITensor
Tensor_shape(self) ==
    ITensor_init(Array("int64", <<Len(self.data.shape)>>, self.data.shape)).res

\* a mutant of FTensor_expand: the requested shape is used as it is given
FTensor_expand_no_adjust(self, shape) ==
    LET bc == ndarray_broadcast_to(self.data, shape.data.vals)
    IN IF bc.status # "ok" THEN [status |-> bc.status, res |-> NoTensor, same |-> FALSE, shape |-> shape]
       ELSE [status |-> "ok", res |-> FTensor_init(bc.arr).res, same |-> FALSE, shape |-> shape]

\* FTensor.expand.  The outcome carries the shape operand as the call left it.
FTensor_expand(self, shape) ==
    LET curr_shape == Tensor_shape(self).data
        cp == ndarray_copy(<<shape.data>>, 1)
        new_shape == cp.mem[cp.ref]
        Left(m) == [shape EXCEPT !.data = m[1]]
        Fail(exc, m) == [status |-> exc, res |-> NoTensor, same |-> FALSE, shape |-> Left(m)]
    IN IF ~Broadcastable(new_shape.shape, curr_shape.shape)
       THEN Fail("ValueError", cp.mem)
       ELSE LET mshape == BroadcastShape(new_shape.shape, curr_shape.shape)
                adjust_loc == [k \in 1..Prod(mshape) |->
                    /\ BroadcastAt(new_shape, mshape, k) < BroadcastAt(curr_shape, mshape, k)
                    /\ BroadcastAt(new_shape, mshape, k) = 1]
                sel == ndarray_getitem_mask(curr_shape, mshape, adjust_loc)
            IN IF sel.status # "ok" THEN Fail(sel.status, cp.mem)
               ELSE LET st == ndarray_setitem_mask(cp.mem, cp.ref, mshape, adjust_loc, sel.arr)
                    IN IF st.status # "ok" THEN Fail(st.status, st.mem)
                       ELSE LET bc == ndarray_broadcast_to(self.data, st.mem[cp.ref].vals)
                                new == FTensor_init(bc.arr)
                            IN IF bc.status # "ok" THEN Fail(bc.status, st.mem)
                               ELSE [status |-> new.status, res |-> new.res, same |-> FALSE,
                                     shape |-> Left(st.mem)]

----------------------------------------------------------------------------
(* Binary operators *)

TensorClasses == {"ITensor", "FTensor", "QTensor"}

\* ITensor.__mul__: no check of other's class; other.data is read
ITensor_mul(self, other) ==
    IF other.cls \notin TensorClasses THEN Raise("AttributeError")
    ELSE LET p == ndarray_mul(self.data, other.data)
         IN IF p.status # "ok" THEN Raise(p.status) ELSE ITensor_init(p.arr)

FTensor_mul(self, other) ==
    IF other.cls = "FTensor"
    THEN LET p == ndarray_mul(self.data, other.data)
         IN IF p.status # "ok" THEN Raise(p.status) ELSE FTensor_init(p.arr)
    ELSE Raise("ValueError")

FTensor_add(self, other) ==
    IF other.cls = "FTensor"
    THEN LET p == ndarray_add(self.data, other.data)
         IN IF p.status # "ok" THEN Raise(p.status) ELSE FTensor_init(p.arr)
    ELSE IF other.cls = "float"
    THEN FTensor_init(ndarray_add(self.data, Array("pyfloat", <<>>, <<other.value>>)).arr)
    ELSE Raise("ValueError")

FTensor_radd(self, other) == FTensor_add(self, other)

QTensor_add(self, other) ==
    IF other.cls = "QTensor"
    THEN LET p == ndarray_add(self.data, other.data)
         IN IF p.status # "ok" THEN Raise(p.status)
            ELSE QTensor_init(p.arr, self.bit_width, self.scale, self.zero_point)
    ELSE Raise("ValueError")

\* the arithmetic of Python's own numbers: NotImplemented for any other class
Number_op(op, self, other) ==
    IF other.cls \in {"float", "int"}
    THEN Return([cls |-> IF "float" \in {self.cls, other.cls} THEN "float" ELSE "int",
                 value |-> Arith(op, self.value, other.value)])
    ELSE Raise("NotImplemented")

\* the special methods each class defines
Methods(cls) ==
    CASE cls = "ITensor" -> {"__mul__"}
      [] cls = "FTensor" -> {"__mul__", "__add__", "__radd__"}
      [] cls = "QTensor" -> {"__add__"}
      [] OTHER -> {"__add__", "__radd__", "__mul__", "__rmul__"}

CallMethod(m, self, other) ==
    CASE self.cls = "ITensor" /\ m = "__mul__" -> ITensor_mul(self, other)
      [] self.cls = "FTensor" /\ m = "__mul__" -> FTensor_mul(self, other)
      [] self.cls = "FTensor" /\ m = "__add__" -> FTensor_add(self, other)
      [] self.cls = "FTensor" /\ m = "__radd__" -> FTensor_radd(self, other)
      [] self.cls = "QTensor" /\ m = "__add__" -> QTensor_add(self, other)
      [] self.cls \in {"float", "int"} /\ m \in {"__add__", "__radd__"} ->
             Number_op("add", self, other)
      [] self.cls \in {"float", "int"} /\ m \in {"__mul__", "__rmul__"} ->
             Number_op("mul", self, other)

\* Python's evaluation of x + y (m = "add") and x * y (m = "mul"): the left
\* operand's method, then the right operand's reflected method when the
\* classes differ, then TypeError.  An exception of a method propagates.
BinaryOp(m, x, y) ==
    LET fwd == "__" \o m \o "__"
        rev == "__r" \o m \o "__"
        first == IF fwd \in Methods(x.cls) THEN CallMethod(fwd, x, y)
                 ELSE Raise("NotImplemented")
    IN IF first.status # "NotImplemented" THEN first
       ELSE IF x.cls # y.cls /\ rev \in Methods(y.cls)
       THEN LET second == CallMethod(rev, y, x)
            IN IF second.status # "NotImplemented" THEN second ELSE Raise("TypeError")
       ELSE Raise("TypeError")

----------------------------------------------------------------------------
(* Methods of ITensor *)

HasData(x) == x.cls \in TensorClasses

ITensor_expand_dims(self, axis) ==
    IF ~HasData(axis) THEN Raise("AttributeError")
    ELSE IF Len(axis.data.shape) # 1 \/ axis.data.dtype \notin IntTypes
    THEN Raise("TypeError")
    ELSE LET e == ndarray_expand_dims(self.data, axis.data.vals)
         IN IF e.status # "ok" THEN Raise(e.status) ELSE ITensor_init(e.arr)

\* ITensor.__eq__.  Arrays that do not broadcast compare, by the version of
\* the array library, as the single value False or with an exception: the
\* set holds both outcomes.
ITensor_eq(self, other) ==
    IF ~HasData(other) THEN {Raise("AttributeError")}
    ELSE IF ~Broadcastable(self.data.shape, other.data.shape)
    THEN {Raise("ValueError"), ITensor_init(Array("int64", <<>>, <<0>>))}
    ELSE LET s == BroadcastShape(self.data.shape, other.data.shape)
         IN {ITensor_init(Array("int64", s,
                [k \in 1..Prod(s) |->
                    IF BroadcastAt(self.data, s, k) = BroadcastAt(other.data, s, k)
                    THEN 1 ELSE 0]))}

ITensor_getitem(self, ind) ==
    LET g == ndarray_getitem(self.data, ind)
    IN IF g.status # "ok" THEN Raise(g.status) ELSE ITensor_init(g.arr)

ITensor_reshape(self, shape) ==
    IF ~HasData(shape) THEN Raise("AttributeError")
    ELSE LET r == ndarray_reshape(self.data, shape.data)
         IN IF r.status # "ok" THEN Raise(r.status) ELSE ITensor_init(r.arr)

\* ITensor.take: np.atleast_1d makes a 0-d index array 1-d
ITensor_take(self, indices, axis) ==
    IF ~HasData(indices) THEN Raise("AttributeError")
    ELSE LET idx == IF indices.data.shape = <<>>
                    THEN [indices.data EXCEPT !.shape = <<1>>] ELSE indices.data
             t == ndarray_take(self.data, idx, axis)
         IN IF t.status # "ok" THEN Raise(t.status) ELSE ITensor_init(t.arr)

----------------------------------------------------------------------------
(* Methods of FTensor *)

FTensor_T(self) == FTensor_init(ndarray_transpose(self.data, <<>>).arr)

FTensor_copy(self) == FTensor_init(self.data)

FTensor_reshape(self, shape) ==
    IF ~HasData(shape) THEN Raise("AttributeError")
    ELSE LET r == ndarray_reshape(self.data, shape.data)
         IN IF r.status # "ok" THEN Raise(r.status) ELSE FTensor_init(r.arr)

FTensor_take(self, indices, axis) ==
    IF ~HasData(indices) THEN Raise("AttributeError")
    ELSE LET t == ndarray_take(self.data, indices.data, axis)
         IN IF t.status # "ok" THEN Raise(t.status) ELSE FTensor_init(t.arr)

FTensor_transpose(self, axes) ==
    LET t == ndarray_transpose(self.data, axes)
    IN IF t.status # "ok" THEN Raise(t.status) ELSE FTensor_init(t.arr)

FTensor_neg(self) ==
    FTensor_init([self.data EXCEPT !.vals = [k \in 1..Len(self.data.vals) |-> -self.data.vals[k]]])

FTensor_getitem(self, ind) ==
    LET g == ndarray_getitem(self.data, ind)
    IN IF g.status # "ok" THEN Raise(g.status) ELSE FTensor_init(g.arr)

FTensor_matmul(self, other) ==
    IF ~HasData(other) THEN Raise("AttributeError")
    ELSE LET m == ndarray_matmul(self.data, other.data)
         IN IF m.status # "ok" THEN Raise(m.status) ELSE FTensor_init(m.arr)

FTensor_div(self, other) ==
    IF ~HasData(other) THEN {Raise("AttributeError")}
    ELSE IF ~Broadcastable(self.data.shape, other.data.shape) THEN {Raise("ValueError")}
    ELSE {FTensor_init(a) :
             a \in ndarray_kernel(ResultType(self.data.dtype, other.data.dtype),
                                  BroadcastShape(self.data.shape, other.data.shape))}

\* numpy_helper.erf: an elementwise kernel whose result dtype the tensor
\* module does not fix
numpy_helper_erf(x) ==
    ndarray_kernel("float32", x.shape) \cup ndarray_kernel("float64", x.shape)

FTensor_erf(self) == {FTensor_init(a) : a \in numpy_helper_erf(self.data)}

FTensor_exp(self) ==
    {FTensor_init(a) : a \in ndarray_kernel(self.data.dtype, self.data.shape)}

FTensor_inv(self) ==
    {FTensor_init(a) : a \in ndarray_kernel(self.data.dtype, self.data.shape)}

FTensor_sqrt(self) ==
    {FTensor_init(a) : a \in ndarray_kernel(self.data.dtype, self.data.shape)}

FTensor_tanh(self) ==
    {FTensor_init(a) : a \in ndarray_kernel(self.data.dtype, self.data.shape)}

FTensor_max(self, axis, keepdims) ==
    LET r == ndarray_reduce("max", self.data, axis, keepdims)
    IN IF r.status # "ok" THEN Raise(r.status) ELSE FTensor_init(r.arr)

FTensor_sum(self, axis, keepdims) ==
    LET r == ndarray_reduce("sum", self.data, axis, keepdims)
    IN IF r.status # "ok" THEN Raise(r.status) ELSE FTensor_init(r.arr)

FTensor_mean(self, axis, keepdims) ==
    LET r == ndarray_reduce("sum", self.data, axis, keepdims)
    IN IF r.status # "ok" THEN {Raise(r.status)}
       ELSE {FTensor_init(a) : a \in ndarray_kernel(r.arr.dtype, r.arr.shape)}

\* FTensor.relu: (data > 0) * data
FTensor_relu(self) ==
    FTensor_init(ndarray_mul(
        Array("bool", self.data.shape,
              [k \in 1..Len(self.data.vals) |-> IF self.data.vals[k] > 0 THEN 1 ELSE 0]),
        self.data).arr)

----------------------------------------------------------------------------
(* Quantization arithmetic (numpy_quantization) *)

\* quantize: round(data / scale) + zero_point, clamped to bit_width bits
quantize(data, bit_width, scale, zero_point) ==
    LET zp == IF zero_point = None THEN Array("int64", <<>>, <<0>>) ELSE zero_point
    IN IF ~Broadcastable(data.shape, zp.shape) THEN [status |-> "ValueError", arr |-> None]
       ELSE LET s == BroadcastShape(data.shape, zp.shape)
            IN [status |-> "ok",
                arr |-> Array("int64", s,
                    [k \in 1..Prod(s) |->
                        Clamp(RoundHalfEven(BroadcastAt(data, s, k), scale)
                                  + BroadcastAt(zp, s, k), bit_width)])]

\* requantize: data under (scale, zero_point) re-expressed under (res_scale,
\* res_zero_point) and clamped to bit_width bits
requantize(data, scale, zero_point, res_scale, res_zero_point, bit_width) ==
    LET zp == IF zero_point = None THEN Array("int64", <<>>, <<0>>) ELSE zero_point
        rzp == IF res_zero_point = None THEN Array("int64", <<>>, <<0>>) ELSE res_zero_point
    IN IF ~Broadcastable(data.shape, zp.shape) THEN [status |-> "ValueError", arr |-> None]
       ELSE LET s0 == BroadcastShape(data.shape, zp.shape)
            IN IF ~Broadcastable(s0, rzp.shape) THEN [status |-> "ValueError", arr |-> None]
               ELSE LET s == BroadcastShape(s0, rzp.shape)
                    IN [status |-> "ok",
                        arr |-> Array("int64", s,
                            [k \in 1..Prod(s) |->
                                Clamp(RoundHalfEven((BroadcastAt(data, s, k)
                                                        - BroadcastAt(zp, s, k)) * scale,
                                                    res_scale)
                                          + BroadcastAt(rzp, s, k), bit_width)])]

----------------------------------------------------------------------------
(* Methods of QTensor *)

QTensor_T(self) ==
    LET zero_point_T == IF self.zero_point = None THEN None
                        ELSE ndarray_transpose(self.zero_point, <<>>).arr
    IN QTensor_init(ndarray_transpose(self.data, <<>>).arr, self.bit_width, self.scale,
                    zero_point_T)

QTensor_reshape(self, shape) ==
    IF ~HasData(shape) THEN Raise("AttributeError")
    ELSE LET r == ndarray_reshape(self.data, shape.data)
         IN IF r.status # "ok" THEN Raise(r.status)
            ELSE QTensor_init(r.arr, self.bit_width, self.scale, self.zero_point)

QTensor_transpose(self, axes) ==
    LET t == ndarray_transpose(self.data, axes)
    IN IF t.status # "ok" THEN Raise(t.status)
       ELSE QTensor_init(t.arr, self.bit_width, self.scale, self.zero_point)

\* QTensor.dequantize: (data - zero_point) * scale as float32
QTensor_dequantize(self) ==
    LET d == IF self.zero_point = None THEN [status |-> "ok", arr |-> self.data]
             ELSE ndarray_binop("sub", self.data, self.zero_point)
    IN IF d.status # "ok" THEN Raise(d.status)
       ELSE FTensor_init(ndarray_astype(
                ndarray_mul(d.arr, Array("float32", <<>>, <<self.scale>>)).arr, "float32"))

QTensor_requantize(self, bit_width, scale, zero_point) ==
    LET q == requantize(self.data, self.scale, self.zero_point, scale, zero_point, bit_width)
    IN IF q.status # "ok" THEN Raise(q.status)
       ELSE QTensor_init(q.arr, bit_width, scale, zero_point)

----------------------------------------------------------------------------
(* Quantized matmul *)

\* numpy_quantization.q_matmul: the zero points are subtracted, the product is
\* accumulated in integers, the scales are multiplied and the zero point of
\* the result is 0
q_matmul(a_data, a_scale, a_zero_point, b_data, b_scale, b_zero_point) ==
    LET Sub(d, z) == IF z = None THEN [status |-> "ok", arr |-> d]
                     ELSE ndarray_binop("sub", d, z)
        a0 == Sub(a_data, a_zero_point)
        b0 == Sub(b_data, b_zero_point)
        Fail == [status |-> "ValueError", data |-> None, scale |-> 0, zero_point |-> None]
    IN IF a0.status # "ok" \/ b0.status # "ok" THEN Fail
       ELSE LET y == ndarray_matmul(a0.arr, b0.arr)
            IN IF y.status # "ok" THEN Fail
               ELSE [status |-> "ok", data |-> y.arr, scale |-> a_scale * b_scale,
                     zero_point |-> Array("int64", <<>>, <<0>>)]

\* a mutant of QTensor_matmul: the result is always declared 32 bits wide
QTensor_matmul_32(self, other) ==
    IF other.cls # "QTensor" THEN Raise("AttributeError")
    ELSE IF self.bit_width # other.bit_width THEN Raise("AssertionError")
    ELSE LET q == q_matmul(self.data, self.scale, self.zero_point,
                           other.data, other.scale, other.zero_point)
         IN IF q.status # "ok" THEN Raise(q.status)
            ELSE QTensor_init(q.data, 32, q.scale, q.zero_point)

\* a mutant of QTensor_matmul: the bit widths are not compared
QTensor_matmul_unchecked(self, other) ==
    IF other.cls # "QTensor" THEN Raise("AttributeError")
    ELSE LET q == q_matmul(self.data, self.scale, self.zero_point,
                           other.data, other.scale, other.zero_point)
         IN IF q.status # "ok" THEN Raise(q.status)
            ELSE QTensor_init(q.data, 4 * self.bit_width, q.scale, q.zero_point)

QTensor_matmul(self, other) ==
    IF other.cls # "QTensor" THEN Raise("AttributeError")
    ELSE IF self.bit_width # other.bit_width THEN Raise("AssertionError")
    ELSE LET bit_width == self.bit_width
             q == q_matmul(self.data, self.scale, self.zero_point,
                           other.data, other.scale, other.zero_point)
         IN IF q.status # "ok" THEN Raise(q.status)
            ELSE QTensor_init(q.data, 4 * bit_width, q.scale, q.zero_point)

----------------------------------------------------------------------------
(* concat and where *)

\* cls(data): the class called with the array as its only argument.  QTensor
\* cannot be called so: bit_width and scale have no default.
Construct(cls, data) ==
    CASE cls = "ITensor" -> ITensor_init(data)
      [] cls = "FTensor" -> FTensor_init(data)
      [] cls = "QTensor" -> Raise("TypeError")
      [] OTHER -> Raise("TypeError")

\* a mutant of concat: the classes are not compared
concat_unchecked(x_list, axis) ==
    IF x_list = <<>> THEN Raise("IndexError")
    ELSE IF \E i \in 1..Len(x_list) : x_list[i].cls \notin TensorClasses
    THEN Raise("AttributeError")
    ELSE LET c == ndarray_concatenate([i \in 1..Len(x_list) |-> x_list[i].data], axis)
         IN IF c.status # "ok" THEN Raise(c.status)
            ELSE Construct(x_list[1].cls, c.arr)

concat(x_list, axis) ==
    IF \E i \in 1..Len(x_list) : x_list[i].cls # x_list[1].cls
    THEN Raise("AssertionError")
    ELSE IF x_list = <<>> THEN Raise("IndexError")
    ELSE IF x_list[1].cls \notin TensorClasses THEN Raise("AttributeError")
    ELSE LET c == ndarray_concatenate([i \in 1..Len(x_list) |-> x_list[i].data], axis)
         IN IF c.status # "ok" THEN Raise(c.status)
            ELSE Construct(x_list[1].cls, c.arr)

where(condition, a, b) ==
    IF a.cls # b.cls THEN Raise("AssertionError")
    ELSE IF condition.cls \notin TensorClasses \/ a.cls \notin TensorClasses
    THEN Raise("AttributeError")
    ELSE LET w == ndarray_where(condition.data, a.data, b.data)
         IN IF w.status # "ok" THEN Raise(w.status)
            ELSE Construct(a.cls, w.arr)

----------------------------------------------------------------------------
(* Compositions *)

Float(v) == [cls |-> "float", value |-> v]

\* (1.0 + (-x).exp()).inv(), the body of both sigmoid methods
Logistic(x) ==
    UNION {FTensor_inv(BinaryOp("add", Float(1), e.res).res) :
              e \in FTensor_exp(FTensor_neg(x).res)}

FTensor_sigmoid(self) == Logistic(self)

\* FTensor.softmax: e.div(ss), with m, e and ss of FTensor._softmax
FTensor_softmax(self, axis) ==
    LET mx == FTensor_max(self, axis, TRUE)
    IN IF mx.status # "ok" THEN {mx}
       ELSE LET m == BinaryOp("add", self, FTensor_neg(mx.res).res)
            IN IF m.status # "ok" THEN {m}
               ELSE UNION {FTensor_div(e.res, FTensor_sum(e.res, axis, TRUE).res) :
                              e \in FTensor_exp(m.res)}

\* QTensor.sigmoid: dequantize, the logistic function in floats, quantize
\* with the tensor's own parameters
QTensor_sigmoid(self) ==
    LET dequant_tensor == QTensor_dequantize(self)
    IN IF dequant_tensor.status # "ok" THEN {dequant_tensor}
       ELSE {LET qactivations == quantize(activations.res.data, self.bit_width, self.scale,
                                          self.zero_point)
             IN IF qactivations.status # "ok" THEN Raise(qactivations.status)
                ELSE QTensor_init(qactivations.arr, self.bit_width, self.scale,
                                  self.zero_point) :
                activations \in Logistic(dequant_tensor.res)}

quantize_tensor(tensor, bit_width, scale, zero_point) ==
    IF ~HasData(tensor) THEN Raise("AttributeError")
    ELSE LET qdata == quantize(tensor.data, bit_width, scale, zero_point)
         IN IF qdata.status # "ok" THEN Raise(qdata.status)
            ELSE QTensor_init(qdata.arr, bit_width, scale, zero_point)

----------------------------------------------------------------------------
(* Inputs *)

\* shapes of rank 1 and 2 with at most MaxSize elements
Shapes ==
    {s \in {<<n>> : n \in 1..MaxSize} \cup
            {<<m, n>> : m \in 1..MaxSize, n \in 1..MaxSize} : Prod(s) <= MaxSize}

DataVals == {-1, 0, 2}
ZpVals == {0, 1}

\* the shapes that broadcast to shape s without enlarging it
ShapesInto(s) ==
    {t \in {<<>>} \cup {<<n>> : n \in 1..MaxSize}
               \cup {<<m, n>> : m \in 1..MaxSize, n \in 1..MaxSize} :
        Len(t) <= Len(s) /\ Broadcastable(s, t) /\ BroadcastShape(s, t) = s}

ZeroPoints(s) ==
    {None} \cup UNION {Arrays("int64", t, ZpVals) : t \in ShapesInto(s)}

QParams == {[bit_width |-> 8, scale |-> 1], [bit_width |-> 4, scale |-> 2]}

QTensorsOfShape(s) ==
    {[cls |-> "QTensor", data |-> d, bit_width |-> p.bit_width, scale |-> p.scale,
      zero_point |-> z] : d \in Arrays("int64", s, DataVals), p \in QParams,
                          z \in ZeroPoints(s)}

----------------------------------------------------------------------------
(* Calls.  A call is made when no result is pending; it stores what it     *)
(* returned or raised.                                                     *)

Ready == steps < MaxSteps /\ status \in {"init", "fed"}

Returns(name, o) ==
    /\ res' = o.res
    /\ status' = o.status
    /\ same' = o.same
    /\ call' = name
    /\ steps' = steps + 1

----------------------------------------------------------------------------
(* relu on every quantized tensor *)

InitRelu ==
    /\ \E s \in Shapes : \E q \in QTensorsOfShape(s) : args = <<q>>
    /\ res = NoTensor
    /\ status = "init"
    /\ call = "none"
    /\ steps = 0
    /\ same = FALSE

Relu ==
    /\ Ready
    /\ Len(args) = 1 /\ args[1].cls \in {"FTensor", "QTensor"}
    /\ IF args[1].cls = "QTensor"
       THEN LET r == QTensor_relu(args[1])
            IN /\ args' = <<r.self>>
               /\ Returns("relu", r)
       ELSE /\ Returns("relu", FTensor_relu(args[1]))
            /\ UNCHANGED args

NextRelu == Relu

SpecRelu == InitRelu /\ [][NextRelu]_vars

----------------------------------------------------------------------------
(* x + y and x * y on every pair of operands *)

\* largest length of a 1-d operand of a binary operation, concat or where
MaxLen == 3

Vectors(dtype, vs) == UNION {Arrays(dtype, <<n>>, vs) : n \in 1..MaxLen}

SmallVals == {-1, 2}

ITensors == {[cls |-> "ITensor", data |-> d] : d \in Vectors("int64", SmallVals)}
FTensors == {[cls |-> "FTensor", data |-> d] : d \in Vectors("float32", SmallVals)}
QTensors ==
    {[cls |-> "QTensor", data |-> d, bit_width |-> p.bit_width, scale |-> p.scale,
      zero_point |-> z] : d \in Vectors("int64", SmallVals), p \in QParams,
                          z \in {None} \cup Arrays("int64", <<>>, ZpVals)}
Numbers == {[cls |-> "float", value |-> 1], [cls |-> "int", value |-> 1]}

Operands == ITensors \cup FTensors \cup QTensors \cup Numbers

InitBinary ==
    /\ args \in Operands \X Operands
    /\ res = NoTensor
    /\ status = "init"
    /\ call = "none"
    /\ steps = 0
    /\ same = FALSE

Binary(m) ==
    /\ Ready
    /\ Len(args) = 2
    /\ \A i \in 1..2 : args[i].cls \in TensorClasses \cup {"float", "int"}
    /\ LET r == BinaryOp(m, args[1], args[2])
       IN Returns(m, r)
    /\ UNCHANGED args

Add == Binary("add")

Mul == Binary("mul")

NextBinary == Add \/ Mul

SpecBinary == InitBinary /\ [][NextBinary]_vars

----------------------------------------------------------------------------
(* expand of every float tensor to every requested shape *)

\* shapes of rank 1 and 2 that may have an empty axis
ShapesFrom0 ==
    {s \in {<<n>> : n \in 0..MaxSize} \cup
            {<<m, n>> : m \in 0..MaxSize, n \in 0..MaxSize} : Prod(s) <= MaxSize}

RequestedShapes ==
    {<<n>> : n \in 0..MaxSize} \cup {<<m, n>> : m \in 0..MaxSize, n \in 0..MaxSize}

InitExpand ==
    /\ \E s \in ShapesFrom0 : \E d \in Arrays("float32", s, SmallVals) :
       \E r \in RequestedShapes :
           args = <<[cls |-> "FTensor", data |-> d],
                    [cls |-> "ITensor", data |-> Array("int64", <<Len(r)>>, r)]>>
    /\ res = NoTensor
    /\ status = "init"
    /\ call = "none"
    /\ steps = 0
    /\ same = FALSE

Expand ==
    /\ Ready
    /\ Len(args) = 2 /\ args[1].cls = "FTensor" /\ args[2].cls = "ITensor"
    /\ LET r == FTensor_expand(args[1], args[2])
       IN /\ args' = <<args[1], r.shape>>
          /\ Returns("expand", r)

NextExpand == Expand

SpecExpand == InitExpand /\ [][NextExpand]_vars

----------------------------------------------------------------------------
(* matmul of every pair of quantized matrices *)

\* the array of a shape whose elements start at v0 and grow by d
Ramp(dtype, shape, v0, d) ==
    Array(dtype, shape, [k \in 1..Prod(shape) |-> v0 + (k - 1) * d])

Matrices == {<<m, n>> : m \in 1..MaxLen, n \in 1..MaxLen}

MatmulParams == {[bit_width |-> 2, scale |-> 1], [bit_width |-> 8, scale |-> 2]}

QMatrices ==
    {[cls |-> "QTensor", data |-> Ramp("int64", s, v0, d), bit_width |-> p.bit_width,
      scale |-> p.scale, zero_point |-> z] :
        s \in Matrices, v0 \in {-1, 12}, d \in {0, 1}, p \in MatmulParams,
        z \in {None, Array("int64", <<>>, <<1>>)}}

InitMatmul ==
    /\ args \in QMatrices \X QMatrices
    /\ res = NoTensor
    /\ status = "init"
    /\ call = "none"
    /\ steps = 0
    /\ same = FALSE

Matmul ==
    /\ Ready
    /\ Len(args) = 2 /\ args[1].cls \in {"FTensor", "QTensor"}
    /\ LET r == IF args[1].cls = "QTensor" THEN QTensor_matmul(args[1], args[2])
                ELSE FTensor_matmul(args[1], args[2])
       IN Returns("matmul", r)
    /\ UNCHANGED args

NextMatmul == Matmul

SpecMatmul == InitMatmul /\ [][NextMatmul]_vars

----------------------------------------------------------------------------
(* concat of every list of tensors, where on every triple *)

\* largest number of tensors in a list given to concat
MaxList == 3

VectorShapes == {<<n>> : n \in 1..MaxLen}

PoolI == {[cls |-> "ITensor", data |-> Ramp("int64", s, 0, 1)] : s \in VectorShapes}
PoolF == {[cls |-> "FTensor", data |-> Ramp("float32", s, v0, 1)] :
             s \in VectorShapes, v0 \in {-1, 2}}
PoolQ == {[cls |-> "QTensor", data |-> Ramp("int64", s, -1, 1), bit_width |-> 8, scale |-> 1,
           zero_point |-> None] : s \in VectorShapes} \cup
         {[cls |-> "QTensor", data |-> Ramp("int64", s, 0, 2), bit_width |-> 4, scale |-> 2,
           zero_point |-> Array("int64", <<>>, <<1>>)] : s \in VectorShapes}

Pool == PoolI \cup PoolF \cup PoolQ

Conditions == {[cls |-> "ITensor", data |-> d] : d \in Vectors("bool", {0, 1})}

InitCombine ==
    /\ \/ \E n \in 1..MaxList : args \in [1..n -> Pool]
       \/ args \in Conditions \X Pool \X Pool
    /\ res = NoTensor
    /\ status = "init"
    /\ call = "none"
    /\ steps = 0
    /\ same = FALSE

Concat ==
    /\ Ready
    /\ \E axis \in {0, 1} :
        LET r == concat(args, axis)
        IN Returns(IF axis = 0 THEN "concat" ELSE "concat_axis1", r)
    /\ UNCHANGED args

Where ==
    /\ Ready
    /\ Len(args) = 3 /\ args[1].cls = "ITensor"
    /\ LET r == where(args[1], args[2], args[3])
       IN Returns("where", r)
    /\ UNCHANGED args

NextCombine == Concat \/ Where

SpecCombine == InitCombine /\ [][NextCombine]_vars

----------------------------------------------------------------------------
(* Sequences of calls: each call on the operands at hand, its result taking *)
(* the place of an operand, or of all of them, for the next call            *)

Raw(a) == [cls |-> "ndarray", data |-> a]

SeedArrays ==
    {Raw(Array(dt, <<2>>, <<0, 1>>)) : dt \in {"float32", "float64", "int64", "int32"}}

SeedF ==
    {[cls |-> "FTensor", data |-> Array("float32", <<2>>, <<-1, 2>>)],
     [cls |-> "FTensor", data |-> Ramp("float32", <<2, 2>>, -1, 1)]}

SeedQ ==
    {[cls |-> "QTensor", data |-> Ramp("int64", <<2, 2>>, -1, 1), bit_width |-> 2,
      scale |-> 1, zero_point |-> None],
     [cls |-> "QTensor", data |-> Ramp("int64", <<2, 2>>, -1, 1), bit_width |-> 2,
      scale |-> 2, zero_point |-> Array("int64", <<>>, <<1>>)],
     [cls |-> "QTensor", data |-> Array("int64", <<2>>, <<-1, 2>>), bit_width |-> 8,
      scale |-> 1, zero_point |-> Array("int64", <<>>, <<0>>)]}

SeedI ==
    {[cls |-> "ITensor", data |-> Array("int64", <<2>>, v)] : v \in {<<0, 1>>, <<2, 2>>}}
    \cup {[cls |-> "ITensor", data |-> Array("int64", <<1>>, <<4>>)]}

Seeds == SeedF \cup SeedQ \cup SeedI

Init ==
    /\ \/ \E a \in Seeds \cup SeedArrays : args = <<a>>
       \/ \E a \in Seeds \cup {Float(1)}, b \in Seeds \cup {Float(1)} : args = <<a, b>>
       \/ \E a \in SeedArrays, b \in SeedArrays : args = <<a, b>>
       \/ \E c \in SeedI, a \in Seeds, b \in Seeds : args = <<c, a, b>>
    /\ res = NoTensor
    /\ status = "init"
    /\ call = "none"
    /\ steps = 0
    /\ same = FALSE

\* the caller binds the returned value in place of one operand, or keeps it
\* alone
Feed ==
    /\ status = "ok"
    /\ steps < MaxSteps
    /\ \/ \E i \in 1..Len(args) : args' = [args EXCEPT ![i] = res]
       \/ args' = <<res>>
    /\ res' = NoTensor
    /\ status' = "fed"
    /\ call' = "feed"
    /\ same' = FALSE
    /\ UNCHANGED steps

Self(classes) == Len(args) = 1 /\ args[1].cls \in classes

SelfOther(classes) == Len(args) = 2 /\ args[1].cls \in classes

NewITensor ==
    /\ Ready
    /\ Self({"ndarray"})
    /\ Returns("ITensor", ITensor_init(args[1].data))
    /\ UNCHANGED args

NewFTensor ==
    /\ Ready
    /\ Self({"ndarray"})
    /\ Returns("FTensor", FTensor_init(args[1].data))
    /\ UNCHANGED args

NewQTensor ==
    /\ Ready
    /\ Len(args) \in {1, 2} /\ \A i \in 1..Len(args) : args[i].cls = "ndarray"
    /\ \E p \in QParams :
          Returns("QTensor", QTensor_init(args[1].data, p.bit_width, p.scale,
                                          IF Len(args) = 2 THEN args[2].data ELSE None))
    /\ UNCHANGED args

Shape ==
    /\ Ready
    /\ Self({"ITensor", "FTensor"})
    /\ Returns("shape", Return(Tensor_shape(args[1])))
    /\ UNCHANGED args

T ==
    /\ Ready
    /\ Self({"FTensor", "QTensor"})
    /\ Returns("T", IF args[1].cls = "FTensor" THEN FTensor_T(args[1]) ELSE QTensor_T(args[1]))
    /\ UNCHANGED args

Copy ==
    /\ Ready
    /\ Self({"FTensor"})
    /\ Returns("copy", FTensor_copy(args[1]))
    /\ UNCHANGED args

Neg ==
    /\ Ready
    /\ Self({"FTensor"})
    /\ Returns("neg", FTensor_neg(args[1]))
    /\ UNCHANGED args

Exp ==
    /\ Ready
    /\ Self({"FTensor"})
    /\ \E o \in FTensor_exp(args[1]) : Returns("exp", o)
    /\ UNCHANGED args

Erf ==
    /\ Ready
    /\ Self({"FTensor"})
    /\ \E o \in FTensor_erf(args[1]) : Returns("erf", o)
    /\ UNCHANGED args

Inv ==
    /\ Ready
    /\ Self({"FTensor"})
    /\ \E o \in FTensor_inv(args[1]) : Returns("inv", o)
    /\ UNCHANGED args

Sqrt ==
    /\ Ready
    /\ Self({"FTensor"})
    /\ \E o \in FTensor_sqrt(args[1]) : Returns("sqrt", o)
    /\ UNCHANGED args

Tanh ==
    /\ Ready
    /\ Self({"FTensor"})
    /\ \E o \in FTensor_tanh(args[1]) : Returns("tanh", o)
    /\ UNCHANGED args

Sigmoid ==
    /\ Ready
    /\ Self({"FTensor", "QTensor"})
    /\ \E o \in (IF args[1].cls = "FTensor" THEN FTensor_sigmoid(args[1])
                 ELSE QTensor_sigmoid(args[1])) : Returns("sigmoid", o)
    /\ UNCHANGED args

Axes == {0, 1, -1}

Max ==
    /\ Ready
    /\ Self({"FTensor"})
    /\ \E axis \in Axes, keepdims \in BOOLEAN :
          Returns("max", FTensor_max(args[1], axis, keepdims))
    /\ UNCHANGED args

Sum ==
    /\ Ready
    /\ Self({"FTensor"})
    /\ \E axis \in Axes, keepdims \in BOOLEAN :
          Returns("sum", FTensor_sum(args[1], axis, keepdims))
    /\ UNCHANGED args

Mean ==
    /\ Ready
    /\ Self({"FTensor"})
    /\ \E axis \in Axes, keepdims \in BOOLEAN :
          \E o \in FTensor_mean(args[1], axis, keepdims) : Returns("mean", o)
    /\ UNCHANGED args

Softmax ==
    /\ Ready
    /\ Self({"FTensor"})
    /\ \E axis \in Axes : \E o \in FTensor_softmax(args[1], axis) : Returns("softmax", o)
    /\ UNCHANGED args

Transpose ==
    /\ Ready
    /\ Self({"FTensor", "QTensor"})
    /\ \E axes \in {<<>>, <<0>>, <<1, 0>>, <<0, 0>>} :
          Returns("transpose", IF args[1].cls = "FTensor" THEN FTensor_transpose(args[1], axes)
                               ELSE QTensor_transpose(args[1], axes))
    /\ UNCHANGED args

GetItem ==
    /\ Ready
    /\ Self({"ITensor", "FTensor"})
    /\ \E ind \in {0, 1, -1, 2} :
          Returns("getitem", IF args[1].cls = "ITensor" THEN ITensor_getitem(args[1], ind)
                             ELSE FTensor_getitem(args[1], ind))
    /\ UNCHANGED args

Dequantize ==
    /\ Ready
    /\ Self({"QTensor"})
    /\ Returns("dequantize", QTensor_dequantize(args[1]))
    /\ UNCHANGED args

Requantize ==
    /\ Ready
    /\ Self({"QTensor"})
    /\ \E p \in QParams, z \in {None, Array("int64", <<>>, <<1>>)} :
          Returns("requantize", QTensor_requantize(args[1], p.bit_width, p.scale, z))
    /\ UNCHANGED args

QuantizeTensor ==
    /\ Ready
    /\ Self({"FTensor"})
    /\ \E p \in QParams, z \in {None, Array("int64", <<>>, <<1>>)} :
          Returns("quantize_tensor", quantize_tensor(args[1], p.bit_width, p.scale, z))
    /\ UNCHANGED args

Div ==
    /\ Ready
    /\ SelfOther({"FTensor"})
    /\ \E o \in FTensor_div(args[1], args[2]) : Returns("div", o)
    /\ UNCHANGED args

Eq ==
    /\ Ready
    /\ SelfOther({"ITensor"})
    /\ \E o \in ITensor_eq(args[1], args[2]) : Returns("eq", o)
    /\ UNCHANGED args

ExpandDims ==
    /\ Ready
    /\ SelfOther({"ITensor"})
    /\ Returns("expand_dims", ITensor_expand_dims(args[1], args[2]))
    /\ UNCHANGED args

Reshape ==
    /\ Ready
    /\ SelfOther(TensorClasses)
    /\ Returns("reshape",
               CASE args[1].cls = "ITensor" -> ITensor_reshape(args[1], args[2])
                 [] args[1].cls = "FTensor" -> FTensor_reshape(args[1], args[2])
                 [] args[1].cls = "QTensor" -> QTensor_reshape(args[1], args[2]))
    /\ UNCHANGED args

Take ==
    /\ Ready
    /\ SelfOther({"ITensor", "FTensor"})
    /\ \E axis \in Axes :
          Returns("take", IF args[1].cls = "ITensor" THEN ITensor_take(args[1], args[2], axis)
                          ELSE FTensor_take(args[1], args[2], axis))
    /\ UNCHANGED args

Next ==
    \/ NewITensor \/ NewFTensor \/ NewQTensor
    \/ Shape \/ T \/ Copy \/ Neg \/ Relu
    \/ Exp \/ Erf \/ Inv \/ Sqrt \/ Tanh \/ Sigmoid
    \/ Max \/ Sum \/ Mean \/ Softmax
    \/ Transpose \/ GetItem
    \/ Dequantize \/ Requantize \/ QuantizeTensor
    \/ Add \/ Mul \/ Div \/ Eq \/ Matmul
    \/ ExpandDims \/ Reshape \/ Take \/ Expand
    \/ Concat \/ Where
    \/ Feed

Spec == Init /\ [][Next]_vars

----------------------------------------------------------------------------
(* Properties of relu (under SpecRelu) *)

\* max(x, z) at every position, z being zp broadcast to the shape of data
ClampedBelow(data, zp) ==
    [k \in 1..Len(data.vals) |-> Max2(data.vals[k], BroadcastAt(zp, data.shape, k))]

SameParams(r, q) ==
    /\ r.cls = "QTensor"
    /\ r.bit_width = q.bit_width
    /\ r.scale = q.scale
    /\ r.zero_point = q.zero_point

\* C1: relu of a tensor without zero_point succeeds and returns a QTensor with
\* every value below 0 replaced by 0, the others unchanged, and the input's
\* bit_width, scale and absent zero_point.
C1_ReluWithoutZeroPoint ==
    (call = "relu" /\ args[1].zero_point = None) =>
        /\ status = "ok"
        /\ SameParams(res, args[1])
        /\ res.data.shape = args[1].data.shape
        /\ res.data.vals = ClampedBelow(args[1].data, Array("int64", <<>>, <<0>>))

\* C2: relu of a tensor with a zero_point that broadcasts against the data
\* returns a QTensor of the same shape whose every element is the larger of
\* the input element and the zero_point at its position, with the input's
\* bit_width, scale and zero_point.
C2_ReluWithZeroPoint ==
    (call = "relu" /\ args[1].zero_point # None) =>
        /\ status = "ok"
        /\ SameParams(res, args[1])
        /\ res.data.shape = args[1].data.shape
        /\ res.data.vals = ClampedBelow(args[1].data, args[1].zero_point)

----------------------------------------------------------------------------
(* Properties of + and * (under SpecBinary) *)

\* C4: + and * on operands of two different tensor variants fail with a
\* type-mismatch error and return no tensor; the only operand accepted that
\* is not a tensor is a number added to an FTensor; every other mixed pair
\* fails.
C4_MixedOperandsFail ==
    (call \in {"add", "mul"} /\ args[1].cls # args[2].cls) =>
        \/ /\ call = "add"
           /\ {args[1].cls, args[2].cls} \in {{"FTensor", "float"}, {"FTensor", "int"}}
        \/ /\ args[1].cls \in TensorClasses /\ args[2].cls \in TensorClasses
           /\ status \in {"ValueError", "TypeError"}
           /\ res = NoTensor
        \/ /\ ~(args[1].cls \in TensorClasses /\ args[2].cls \in TensorClasses)
           /\ status # "ok"
           /\ res = NoTensor

----------------------------------------------------------------------------
(* Properties of expand (under SpecExpand) *)

\* the requested shape is of the rank of the tensor and, axis by axis, equal
\* to the current extent unless one of the two is 1
ExpandCompatible(self, shape) ==
    /\ Len(shape.data.vals) = Len(self.data.shape)
    /\ \A i \in 1..Len(self.data.shape) :
          \/ shape.data.vals[i] = self.data.shape[i]
          \/ shape.data.vals[i] = 1
          \/ self.data.shape[i] = 1

AllPositive(self, shape) ==
    /\ \A i \in 1..Len(self.data.shape) : self.data.shape[i] >= 1
    /\ \A i \in 1..Len(shape.data.vals) : shape.data.vals[i] >= 1

\* what the claim says of the call: it succeeds, each axis of the result has
\* the current extent where 1 was requested of a larger axis and the
\* requested extent elsewhere, no axis shrinks, and the shape passed in is
\* as it was
ExpandContract ==
    /\ status' = "ok"
    /\ res'.cls = "FTensor"
    /\ Len(res'.data.shape) = Len(args[1].data.shape)
    /\ \A i \in 1..Len(args[1].data.shape) :
          /\ res'.data.shape[i] =
                IF args[2].data.vals[i] = 1 /\ args[1].data.shape[i] > 1
                THEN args[1].data.shape[i] ELSE args[2].data.vals[i]
          /\ res'.data.shape[i] >= args[1].data.shape[i]
    /\ args' = args

\* C5 as stated: for every current shape and every broadcast-compatible
\* requested shape of the same rank, expand succeeds with the extents above,
\* shrinks no axis and leaves the requested shape array unmodified.
C5_ExpandEveryShape ==
    [][(call' = "expand" /\ ExpandCompatible(args[1], args[2])) => ExpandContract]_vars

\* C5 amended: the same, for shapes all of whose extents are at least 1.
C5_ExpandPositiveShapes ==
    [][(call' = "expand" /\ ExpandCompatible(args[1], args[2])
            /\ AllPositive(args[1], args[2])) => ExpandContract]_vars

\* a requested 1 on an axis of extent 2 or more was kept at the current extent
C5_Witness ==
    /\ call = "expand" /\ status = "ok"
    /\ ExpandCompatible(args[1], args[2]) /\ AllPositive(args[1], args[2])
    /\ \E i \in 1..Len(args[1].data.shape) :
          /\ args[2].data.vals[i] = 1
          /\ args[1].data.shape[i] > 1
          /\ res.data.shape[i] = args[1].data.shape[i]

----------------------------------------------------------------------------
(* Properties of matmul (under SpecMatmul) *)

MatmulOperands ==
    q_matmul(args[1].data, args[1].scale, args[1].zero_point,
             args[2].data, args[2].scale, args[2].zero_point)

\* C6: matmul of two QTensors of equal bit_width b returns a QTensor of
\* bit_width 4*b whose scale and zero_point are those q_matmul returned (the
\* product of the scales, and 0) and whose data is q_matmul's, unclamped.
C6_MatmulResult ==
    (call = "matmul" /\ args[1].bit_width = args[2].bit_width
        /\ MatmulOperands.status = "ok") =>
        /\ status = "ok"
        /\ res.cls = "QTensor"
        /\ res.bit_width = 4 * args[1].bit_width
        /\ res.scale = args[1].scale * args[2].scale
        /\ res.zero_point = Array("int64", <<>>, <<0>>)
        /\ res.data = MatmulOperands.data

\* a product of 2-bit operands holds a value beyond the signed 8-bit range
C6_Witness ==
    /\ call = "matmul" /\ status = "ok"
    /\ args[1].bit_width = 2 /\ res.bit_width = 8
    /\ \E k \in 1..Len(res.data.vals) : res.data.vals[k] > 127

\* C7: matmul of operands of different bit_width fails on the assertion,
\* before q_matmul runs: no tensor is returned, the operands are as they were.
C7_MatmulBitWidthMismatch ==
    [][(call' = "matmul" /\ args[1].bit_width # args[2].bit_width) =>
          /\ status' = "AssertionError"
          /\ res' = NoTensor
          /\ args' = args]_vars

\* the bit widths differ and so do the inner dimensions: the assertion is
\* what failed, not q_matmul
C7_Witness ==
    /\ call = "matmul" /\ status = "AssertionError"
    /\ args[1].bit_width # args[2].bit_width
    /\ MatmulOperands.status = "ValueError"

----------------------------------------------------------------------------
(* Properties of concat and where (under SpecCombine) *)

IsConcat == call \in {"concat", "concat_axis1"}

AllOfClass(c) == \A i \in 1..Len(args) : args[i].cls = c

\* C3: concat of QTensors and where on two QTensors return a QTensor with the
\* combined data and the bit_width, scale and zero_point of the first tensor;
\* neither fails.
C3_CombineQuantized ==
    /\ (call = "concat" /\ AllOfClass("QTensor")) =>
          /\ status = "ok"
          /\ SameParams(res, args[1])
          /\ res.data.vals = Flatten([i \in 1..Len(args) |-> args[i].data.vals])
    /\ (call = "where" /\ args[2].cls = "QTensor" /\ args[3].cls = "QTensor"
           /\ ndarray_where(args[1].data, args[2].data, args[3].data).status = "ok") =>
          /\ status = "ok"
          /\ SameParams(res, args[2])
          /\ res.data = ndarray_where(args[1].data, args[2].data, args[3].data).arr

\* C8: concat fails on its assertion when an element is of another class than
\* the first, where when a and b are of different classes, in both cases
\* before the arrays are combined and without a result; on FTensors only, or
\* ITensors only, each returns a tensor of that class.
C8_SameVariantRequired ==
    /\ (IsConcat /\ \E i \in 1..Len(args) : args[i].cls # args[1].cls) =>
          (status = "AssertionError" /\ res = NoTensor)
    /\ (call = "where" /\ args[2].cls # args[3].cls) =>
          (status = "AssertionError" /\ res = NoTensor)
    /\ \A c \in {"FTensor", "ITensor"} :
          /\ (call = "concat" /\ AllOfClass(c)) => (status = "ok" /\ res.cls = c)
          /\ (call = "where" /\ args[2].cls = c /\ args[3].cls = c
                 /\ ndarray_where(args[1].data, args[2].data, args[3].data).status = "ok")
                => (status = "ok" /\ res.cls = c)

\* a list whose third element alone is of another class was refused
C8_Witness ==
    /\ call = "concat" /\ Len(args) = 3
    /\ args[1].cls = args[2].cls /\ args[3].cls # args[1].cls
    /\ status = "AssertionError"

----------------------------------------------------------------------------
(* Properties of sequences of calls (under Spec) *)

\* the element types the constructors admit
StorageOk(t) ==
    /\ t.cls = "FTensor" => t.data.dtype = "float32"
    /\ t.cls = "QTensor" =>
          /\ t.data.dtype = "int64"
          /\ t.zero_point = None \/ t.zero_point.dtype = "int64"

\* C9: along any sequence of calls every FTensor holds float32 data and every
\* QTensor int64 data with a zero_point that is absent or int64, whether it
\* is an operand or the tensor a call returned; FTensor(data) with data that
\* is not float32, and QTensor(data, ..., zero_point) with data or a
\* zero_point that is not int64, raise and return no tensor.
C9_StorageTypes ==
    /\ \A i \in 1..Len(args) : StorageOk(args[i])
    /\ StorageOk(res)
    /\ (call = "FTensor" /\ args[1].data.dtype # "float32") =>
          (status = "ValueError" /\ res = NoTensor)
    /\ (call = "QTensor" /\ \E i \in 1..Len(args) : args[i].data.dtype # "int64") =>
          (status = "ValueError" /\ res = NoTensor)

\* a second call, on the result of a first, widened its QTensor operand to
\* floats and returned them as a float32 FTensor
C9_Witness ==
    /\ steps = 2 /\ call = "dequantize" /\ status = "ok"
    /\ args[1].cls = "QTensor" /\ args[1].zero_point # None
    /\ res.cls = "FTensor" /\ res.data.dtype = "float32"

\* C10: no call, returning or raising, changes an operand (its data,
\* bit_width, scale or zero_point), and the tensor a call returns is never
\* one of the operand objects.
C10_OperandsUnchanged ==
    [][call' # "feed" => (args' = args /\ ~same')]_vars

\* relu returned data that differs from its operand's, which is as it was
\* before the call: a QTensor an earlier call returned
C10_Witness ==
    /\ steps = 2 /\ call = "relu" /\ status = "ok"
    /\ args[1].cls = "QTensor"
    /\ res.data # args[1].data

====
